---- MODULE Spec2Model ----
(***************************************************************************)
(* Model of the decision-and-resilience layer of the research assistant:   *)
(*   - EnhancedCoordinator (src/coordinator.py): task allocation, agent    *)
(*     voting, search with fallback, reward, agent updates;                *)
(*   - CachedAPI / OpenAlexAPI / ArxivAPI / ResearchToolkit (src/tools.py):*)
(*     cache, retry loop, per-source counters.                             *)
(*                                                                         *)
(* Floats are kept as integers in tenths: cost 5.0 is 50, reward -10 is    *)
(* -100, quality 0.8 is 8, and the synthesis bonus quality * 2 is 2 * 8.   *)
(* The learning agents, the synthesizer and the environment are external   *)
(* collaborators: each of their return values is a nondeterministic input. *)
(***************************************************************************)
EXTENDS Integers, Sequences, FiniteSets, TLC

\* ------------------------------------------------------------------ bounds

\* Number of research_with_fallback runs explored.
MaxTasks == 2

\* Largest paper list an environment search returns.
MaxPapers == 1

\* Episode counts explored: 0 and WarmupEpisodes - EpisodeSlack .. WarmupEpisodes + EpisodeSlack.
EpisodeSlack == 1

\* Number of ResearchToolkit.search calls explored.
MaxCalls == 2

\* Largest result list a provider returns.
MaxResults == 1

\* Largest abstract, in word positions, an inverted index describes.
MaxPositions == 4

\* ------------------------------------------------------- program constants

\* coordinator.py:33  if self.q_agent.episode_count < 50
WarmupEpisodes == 50

\* coordinator.py:119  papers, cost = [], 5.0        (tenths)
FallbackCost == 50

\* coordinator.py:130  total_reward = -10            (tenths)
FailurePenalty == -100

\* coordinator.py:127  synthesis_result['quality'] * 2
BonusFactor == 2

\* tools.py:84  max_retries = 3
MaxRetries == 3

\* tools.py:123  time.sleep(5)
RateLimitSleep == 5

\* tools.py:128  time.sleep(2 * (attempt + 1))
BackoffUnit == 2

\* ------------------------------------------------------------ input domains

Difficulties == {"easy", "medium", "hard"}

Topics == {"ml"}

\* Source ids an agent may propose; "pubmed" stands for any id outside the pair.
Sources == {"openalex", "arxiv", "pubmed"}

Strategies == {"broad", "specific"}

\* q_agent.get_state(task): an opaque state value.
States == {"s0", "s1"}

EpisodeCounts ==
    {0} \cup { n \in (WarmupEpisodes - EpisodeSlack)..(WarmupEpisodes + EpisodeSlack) : n >= 0 }

\* Costs an environment search reports (tenths).
Costs == {20, FallbackCost}

\* Synthesis quality in [0,1] (tenths).
Qualities == {0, 8}

\* Values env.get_reward may return (tenths).
BaseRewards == {-30, 45}

PaperList(n) == [i \in 1..n |-> i]

\* Outcomes of env.execute_search: it raises, or returns (papers, cost).
SearchOutcomes ==
    { [kind |-> "raise", papers |-> << >>, cost |-> 0] }
    \cup { [kind |-> "return", papers |-> PaperList(n), cost |-> c] :
             n \in 0..MaxPapers, c \in Costs }

\* The source clients the toolkit owns.
Clients == {"openalex", "arxiv"}

Queries == {"rl", "gnn"}

\* HTTP status codes a provider answers with.
StatusCodes == {200, 404, 429, 503}

\* What one session.get(...) of the OpenAlex client meets: a response (whose
\* payload, for a 200, parses and normalizes or does not), a timeout, or another
\* exception of the request.
Responses ==
    { [kind |-> "response", status |-> st, payload |-> "good", papers |-> PaperList(n)] :
        st \in StatusCodes, n \in 0..MaxResults }
    \cup { [kind |-> "response", status |-> 200, payload |-> "malformed", papers |-> << >>],
           [kind |-> "timeout", status |-> 0, payload |-> "none", papers |-> << >>],
           [kind |-> "error", status |-> 0, payload |-> "none", papers |-> << >>] }

\* What iterating client.results(search) of the arXiv client does: it yields n
\* results and ends, or raises after yielding n results.
ArxivResults ==
    { [kind |-> k, papers |-> PaperList(n)] : k \in {"ok", "raise"}, n \in 0..MaxResults }

\* What a cache write does to the file: written, left as it was (open failed),
\* or left truncated (the dump failed).
WriteOutcomes == {"written", "untouched", "truncated"}

Absent == [state |-> "absent", data |-> << >>]

Corrupt == [state |-> "corrupt", data |-> << >>]

NoCall == [source |-> "none", query |-> "none", result |-> << >>, requests |-> 0,
           stored |-> FALSE, outcome |-> "none"]

\* Words of an abstract; "" marks a position the index lists under no word.
Words == {"a", "b"}

Gap == ""

\* The abstracts a work may come with: a word or a gap at each position, a word
\* at the last one.
Texts ==
    UNION { { t \in [1..n -> Words \cup {Gap}] : t[n] # Gap } : n \in 1..MaxPositions }

NoBallot == [strategy |-> "none", source |-> "none"]

NoInfo == [strategy |-> "none", source |-> "none", cost |-> 0, papers_count |-> 0,
           synthesis_quality |-> 0, allocation |-> "none",
           sources_tried |-> << >>, fallback_used |-> FALSE]

\* ------------------------------------------------------------------- state

VARIABLES
    pc,                       \* position of research_with_fallback
    tasks_started,            \* runs begun so far
    task,                     \* the task of the current run
    episode_count,            \* q_agent.episode_count as read by allocate_task
    q_state,                  \* state = q_agent.get_state(task)
    task_allocation_history,  \* self.task_allocation_history
    allocation,               \* allocate_task's return value
    q_ballot,                 \* q_agent.choose_action's return value, once asked
    ucb_ballot,               \* ucb_agent.choose_source's return value, once asked
    q_queries,                \* calls of q_agent.choose_action in this run
    ucb_queries,              \* calls of ucb_agent.choose_source in this run
    strategy,
    source,
    sources_tried,
    searches,                 \* the env.execute_search calls issued, in order
    primary_outcome,          \* what the primary search did
    fallback_outcome,         \* what the fallback search did ("none": not made)
    papers,
    cost,
    synth_calls,              \* calls of synthesizer.synthesize in this run
    quality,
    base_reward,
    total_reward,
    q_updates,                \* the q_agent.update calls of this run
    ucb_updates,              \* the ucb_agent.update calls of this run
    info,                     \* the returned info dictionary
    t_pc,                     \* position of ResearchToolkit.search
    calls_started,            \* toolkit calls begun so far
    t_source,                 \* the source argument of the current call
    t_query,                  \* the query argument of the current call
    cache,                    \* the cache files, by (source, query)
    call_count,               \* self.call_count (absent key = 0)
    failure_count,            \* self.failure_count (absent key = 0)
    attempt,                  \* the retry loop's attempt
    requests,                 \* provider requests issued by the current call
    sleeps,                   \* the time.sleep calls of the current call, in order
    responses,                \* what each provider request of the current call met
    t_papers,                 \* the list the source client returned
    t_stored,                 \* the returned list is what the cache file holds
    t_outcome,                \* how the current call got its list
    last_call,                \* the last completed call
    t_lookup,                 \* the cache file's condition when the current call looked it up
    t_write,                  \* what the current call's cache write did ("none": no write)
    t_fetched,                \* the list the provider's answer was normalized to
    calls_made,               \* toolkit calls made so far, by the source named
    empties_returned,         \* toolkit calls that returned [], by the source named
    a_pc,                     \* position of the abstract reconstruction
    a_text,                   \* the abstract the work's inverted index was built from
    inv_index,                \* work['abstract_inverted_index'], in dictionary order
    words,                    \* the position-indexed list being filled
    abstract                  \* ' '.join(words)

coordVars ==
    << pc, tasks_started, task, episode_count, q_state, task_allocation_history,
       allocation, q_ballot, ucb_ballot, q_queries, ucb_queries, strategy, source,
       sources_tried, searches, primary_outcome, fallback_outcome, papers, cost,
       synth_calls, quality, base_reward, total_reward, q_updates, ucb_updates, info >>

toolVars ==
    << t_pc, calls_started, t_source, t_query, cache, call_count, failure_count,
       attempt, requests, sleeps, responses, t_papers, t_stored, t_outcome,
       last_call, t_lookup, t_write, t_fetched, calls_made, empties_returned >>

absVars == << a_pc, a_text, inv_index, words, abstract >>

vars == << coordVars, toolVars, absVars >>

\* ----------------------------------------------------- coordinator helpers

\* Mutant of allocate_task: the warm-up test is off by one (<= for <).
allocate_task_inclusive(count, difficulty) ==
    IF count <= WarmupEpisodes THEN "both"
    ELSE IF difficulty = "easy" THEN "ucb_agent"
    ELSE IF difficulty = "hard" THEN "q_agent"
    ELSE "both"

\* allocate_task: the returned allocation.
allocate_task(count, difficulty) ==
    IF count < WarmupEpisodes THEN "both"
    ELSE IF difficulty = "easy" THEN "ucb_agent"
    ELSE IF difficulty = "hard" THEN "q_agent"
    ELSE "both"

\* Counter(values): the distinct values in first-insertion order, with counts.
RECURSIVE CounterOf(_)
CounterOf(vals) ==
    IF vals = << >> THEN << >>
    ELSE LET rest == CounterOf(SubSeq(vals, 1, Len(vals) - 1))
             v == vals[Len(vals)]
             hit == { i \in 1..Len(rest) : rest[i].elem = v }
         IN IF hit = {}
            THEN Append(rest, [elem |-> v, count |-> 1])
            ELSE [ i \in 1..Len(rest) |->
                     IF i \in hit THEN [elem |-> v, count |-> rest[i].count + 1]
                     ELSE rest[i] ]

\* Mutant of most_common: among equal counts the last inserted wins.
most_common_last(counter) ==
    LET best == CHOOSE i \in 1..Len(counter) :
                   /\ \A j \in 1..Len(counter) : counter[j].count <= counter[i].count
                   /\ \A j \in (i + 1)..Len(counter) : counter[j].count < counter[i].count
    IN counter[best].elem

\* Counter.most_common(1)[0][0]: max over the items by count, first maximum wins.
most_common(counter) ==
    LET best == CHOOSE i \in 1..Len(counter) :
                   /\ \A j \in 1..Len(counter) : counter[j].count <= counter[i].count
                   /\ \A j \in 1..(i - 1) : counter[j].count < counter[i].count
    IN counter[best].elem

\* agent_voting: (winning_source, q_strategy) from the two ballots.
agent_voting(qb, ucb_source) ==
    [source |-> most_common(CounterOf(<< qb.source, ucb_source >>)),
     strategy |-> qb.strategy]

\* Mutant of PrimaryFailed: an empty list is not treated as a failure.
PrimaryFailed_raise_only(outcome) ==
    outcome.kind = "raise"

\* The primary search counts as failed: it raised, or "not papers".
PrimaryFailed(outcome) ==
    outcome.kind = "raise" \/ Len(outcome.papers) = 0

\* backup_source = 'arxiv' if source == 'openalex' else 'openalex'
\* Mutant of BackupSource: openalex whatever the primary source.
BackupSource_fixed(src) == "openalex"

BackupSource(src) ==
    IF src = "openalex" THEN "arxiv" ELSE "openalex"

\* Mutant of TotalReward: the synthesis bonus is not doubled.
TotalReward_single_bonus(ps, base, q) ==
    IF Len(ps) > 0 THEN base + q ELSE FailurePenalty

\* The reward branch: "if papers:".
TotalReward(ps, base, q) ==
    IF Len(ps) > 0 THEN base + q * BonusFactor ELSE FailurePenalty

\* Mutant of UpdatesQ: the strategy agent is updated only when it works alone.
UpdatesQ_alone(alloc) == alloc = "q_agent"

\* Line 134: if allocation in ['q_agent', 'both'].
UpdatesQ(alloc) == alloc \in {"q_agent", "both"}

\* Line 136: if allocation in ['ucb_agent', 'both'].
UpdatesUcb(alloc) == alloc \in {"ucb_agent", "both"}

\* Mutant of FallbackResult: the fallback search's exception is not caught.
\* Mutant of FallbackResult: the source stays the primary one after a fallback
\* search that returned.
FallbackResult_keep_source(outcome, src, backup) ==
    IF outcome.kind = "raise"
    THEN [papers |-> << >>, cost |-> FallbackCost, source |-> src, escaped |-> FALSE]
    ELSE [papers |-> outcome.papers, cost |-> outcome.cost, source |-> src,
          escaped |-> FALSE]

FallbackResult_uncaught(outcome, src, backup) ==
    IF outcome.kind = "raise"
    THEN [papers |-> << >>, cost |-> 0, source |-> src, escaped |-> TRUE]
    ELSE [papers |-> outcome.papers, cost |-> outcome.cost, source |-> backup,
          escaped |-> FALSE]

\* Lines 114-119: the fallback try/except. A search that returns is kept as it is
\* (papers may be empty) and the source becomes the backup; a search that raises
\* is caught and replaced by ([], 5.0), the source staying the primary one.
FallbackResult(outcome, src, backup) ==
    IF outcome.kind = "raise"
    THEN [papers |-> << >>, cost |-> FallbackCost, source |-> src, escaped |-> FALSE]
    ELSE [papers |-> outcome.papers, cost |-> outcome.cost, source |-> backup,
          escaped |-> FALSE]

\* How a search outcome is recorded in the history variables.
OutcomeKind(outcome) ==
    IF outcome.kind = "raise" THEN "raise"
    ELSE IF Len(outcome.papers) = 0 THEN "empty" ELSE "papers"

\* Line 133: next_state = state.
NextState(st) == st

\* Mutant of BuildInfo: fallback_used is told from the final source.
BuildInfo_by_source(strat, src, c, ps, q, alloc, tried) ==
    [strategy |-> strat, source |-> src, cost |-> c, papers_count |-> Len(ps),
     synthesis_quality |-> q, allocation |-> alloc, sources_tried |-> tried,
     fallback_used |-> src # tried[1]]

\* Lines 139-151: the info dictionary (the fields the coordinator computes).
BuildInfo(strat, src, c, ps, q, alloc, tried) ==
    [strategy |-> strat, source |-> src, cost |-> c, papers_count |-> Len(ps),
     synthesis_quality |-> q, allocation |-> alloc, sources_tried |-> tried,
     fallback_used |-> Len(tried) > 1]

\* ------------------------------------------------------ tool-layer helpers

\* get_cache_key: md5 of "<source>_<query>"; the digest is kept as the pair it
\* is computed from (distinct pairs give distinct strings).
get_cache_key(query, src) == << src, query >>

\* Mutant of get_cached: the read is not guarded, an unreadable file raises.
get_cached_unguarded(entry) ==
    IF entry.state = "valid"
    THEN [found |-> TRUE, data |-> entry.data, raised |-> FALSE]
    ELSE [found |-> FALSE, data |-> << >>, raised |-> entry.state = "corrupt"]

\* get_cached: the parsed file, or None when it is absent or unreadable.
get_cached(entry) ==
    IF entry.state = "valid"
    THEN [found |-> TRUE, data |-> entry.data, raised |-> FALSE]
    ELSE [found |-> FALSE, data |-> << >>, raised |-> FALSE]

\* "if cached:" - None and the empty list are both falsy.
CacheHit(cached) == cached.found /\ Len(cached.data) > 0

\* Mutant of save_cache: the write never reaches the file.
save_cache_dropped(entry, data, w) == entry

\* save_cache: the file after the write; failures are swallowed.
save_cache(entry, data, w) ==
    IF w = "written" THEN [state |-> "valid", data |-> data]
    ELSE IF w = "truncated" THEN Corrupt
    ELSE entry

\* Mutant of Backoff: the same delay after every attempt.
Backoff_flat(att) == BackoffUnit

\* 2 * (attempt + 1)
Backoff(att) == BackoffUnit * (att + 1)

\* Mutant of OpenAlexStep: a 4xx answer is retried like a 5xx.
OpenAlexStep_retry_4xx(resp, att) ==
    IF resp.kind = "response" /\ resp.status = 200 /\ resp.payload = "good"
    THEN [next |-> "return", papers |-> resp.papers, save |-> TRUE, sleep |-> 0]
    ELSE IF resp.kind = "response" /\ resp.status = 429
    THEN [next |-> "continue", papers |-> << >>, save |-> FALSE, sleep |-> RateLimitSleep]
    ELSE IF att < MaxRetries - 1
    THEN [next |-> "continue", papers |-> << >>, save |-> FALSE, sleep |-> Backoff(att)]
    ELSE [next |-> "return", papers |-> << >>, save |-> FALSE, sleep |-> 0]

\* One iteration of the OpenAlex retry loop (lines 85-147), attempt att (0-based):
\* whether the loop returns or continues, the list returned, whether it is
\* saved, and the sleep made (0: none).
OpenAlexStep(resp, att) ==
    IF resp.kind = "response" /\ resp.status = 200 /\ resp.payload = "good"
    THEN [next |-> "return", papers |-> resp.papers, save |-> TRUE, sleep |-> 0]
    ELSE IF resp.kind = "response" /\ resp.status = 429
    THEN [next |-> "continue", papers |-> << >>, save |-> FALSE, sleep |-> RateLimitSleep]
    ELSE IF resp.kind = "response" /\ resp.status # 200 /\ resp.status < 500
    THEN [next |-> "return", papers |-> << >>, save |-> FALSE, sleep |-> 0]
    ELSE \* a 5xx, a timeout, or any other exception (a malformed 200 payload too)
         IF att < MaxRetries - 1
         THEN [next |-> "continue", papers |-> << >>, save |-> FALSE, sleep |-> Backoff(att)]
         ELSE [next |-> "return", papers |-> << >>, save |-> FALSE, sleep |-> 0]

\* Mutant of LoopContinues: one attempt too many.
LoopContinues_extra(att) == att <= MaxRetries

\* "for attempt in range(max_retries)": the loop goes on while attempts remain.
LoopContinues(att) == att < MaxRetries

\* How a provider request's fate is named in the call records.
ResponseClass(resp) ==
    IF resp.kind # "response" THEN resp.kind
    ELSE IF resp.status = 200 THEN (IF resp.payload = "good" THEN "ok" ELSE "malformed")
    ELSE IF resp.status = 429 THEN "rate_limited"
    ELSE IF resp.status >= 500 THEN "server_error"
    ELSE "client_error"

\* How a returned list is named in the call records.
ListKind(ps) == IF Len(ps) = 0 THEN "empty" ELSE "papers"

\* Mutant of CountsAsFailure: an empty list is never counted as a failure.
CountsAsFailure_never(ps) == FALSE

\* "if not papers:" in ResearchToolkit.search.
CountsAsFailure(ps) == Len(ps) = 0

\* get_stats: success_rate = 1 - failures / max(1, calls), kept as the fraction
\* (max(1, calls) - failures) / max(1, calls).
success_rate(calls, failures) ==
    LET den == IF calls > 1 THEN calls ELSE 1
    IN [num |-> den - failures, den |-> den]

\* Mutant of IncrementBucket: every task is counted under 'both'.
IncrementBucket_both(history, bucket) ==
    [history EXCEPT !["both"] = @ + 1]

\* self.task_allocation_history[<allocation>] += 1 (lines 34, 40, 44, 48).
IncrementBucket(history, bucket) ==
    [history EXCEPT ![bucket] = @ + 1]

\* ------------------------------------------- abstract reconstruction helpers

MaxOf(S) == CHOOSE m \in S : \A x \in S : x <= m

\* The members of a finite set of numbers, ascending.
RECURSIVE Ascending(_)
Ascending(S) ==
    IF S = {} THEN << >>
    ELSE LET m == MaxOf(S) IN Append(Ascending(S \ {m}), m)

\* The inverted index a provider sends for a text: each word with its 0-based
\* positions, words in order of first occurrence.
InvertedIndex(text) ==
    LET present == SelectSeq(text, LAMBDA w : w # Gap)
        order == CounterOf(present)
    IN [ k \in 1..Len(order) |->
           [word |-> order[k].elem,
            positions |-> Ascending({ i - 1 : i \in { j \in 1..Len(text) :
                                                        text[j] = order[k].elem } })] ]

\* max(max(positions) for positions in inv_index.values()) + 1
IndexSize(idx) ==
    MaxOf({ MaxOf({ idx[k].positions[j] : j \in 1..Len(idx[k].positions) }) :
              k \in 1..Len(idx) }) + 1

\* Mutant of PlaceWord: only the first listed position of a word is written.
PlaceWord_first_only(ws, word, positions) ==
    [ i \in 1..Len(ws) |-> IF positions[1] + 1 = i THEN word ELSE ws[i] ]

\* for pos in positions: words[pos] = word   (positions are 0-based)
PlaceWord(ws, word, positions) ==
    [ i \in 1..Len(ws) |->
        IF \E j \in 1..Len(positions) : positions[j] + 1 = i THEN word ELSE ws[i] ]

\* for word, positions in inv_index.items(): ...
RECURSIVE PlaceAll(_, _)
PlaceAll(ws, idx) ==
    IF idx = << >> THEN ws
    ELSE PlaceAll(PlaceWord(ws, Head(idx).word, Head(idx).positions), Tail(idx))

\* words = [''] * size, then filled from the index.
ReconstructWords(idx) ==
    PlaceAll([ i \in 1..IndexSize(idx) |-> "" ], idx)

\* ' '.join(words)
RECURSIVE JoinWords(_)
JoinWords(ws) ==
    IF ws = << >> THEN ""
    ELSE IF Len(ws) = 1 THEN ws[1]
    ELSE ws[1] \o " " \o JoinWords(Tail(ws))

\* -------------------------------------------------------------------- Init

CoordInit ==
    /\ pc = "idle"
    /\ tasks_started = 0
    /\ task = [difficulty |-> "medium", topic |-> "ml"]
    /\ episode_count = 0
    /\ q_state = "s0"
    /\ task_allocation_history = [q_agent |-> 0, ucb_agent |-> 0, both |-> 0]
    /\ allocation = "none"
    /\ q_ballot = NoBallot
    /\ ucb_ballot = "none"
    /\ q_queries = 0
    /\ ucb_queries = 0
    /\ strategy = "none"
    /\ source = "none"
    /\ sources_tried = << >>
    /\ searches = << >>
    /\ primary_outcome = "none"
    /\ fallback_outcome = "none"
    /\ papers = << >>
    /\ cost = 0
    /\ synth_calls = 0
    /\ quality = 0
    /\ base_reward = 0
    /\ total_reward = 0
    /\ q_updates = << >>
    /\ ucb_updates = << >>
    /\ info = NoInfo

\* The toolkit after construction; the cache directory outlives the process.
ToolsInit(c) ==
    /\ t_pc = "idle"
    /\ calls_started = 0
    /\ t_source = "none"
    /\ t_query = "none"
    /\ cache = c
    /\ call_count = [s \in Sources |-> 0]
    /\ failure_count = [s \in Sources |-> 0]
    /\ attempt = 0
    /\ requests = 0
    /\ sleeps = << >>
    /\ responses = << >>
    /\ t_papers = << >>
    /\ t_stored = FALSE
    /\ t_outcome = "none"
    /\ last_call = NoCall
    /\ t_lookup = "none"
    /\ t_write = "none"
    /\ t_fetched = << >>
    /\ calls_made = [s \in Sources |-> 0]
    /\ empties_returned = [s \in Sources |-> 0]

EmptyCache == [k \in Clients \X Queries |-> Absent]

\* No work has been normalized yet.
AbstractInit ==
    /\ a_pc = "idle"
    /\ a_text = << >>
    /\ inv_index = << >>
    /\ words = << >>
    /\ abstract = ""

Init == CoordInit /\ ToolsInit(EmptyCache) /\ AbstractInit

\* The cache files an earlier process left may be unreadable.
InitTools ==
    /\ CoordInit
    /\ AbstractInit
    /\ \E e \in {Absent, Corrupt} : ToolsInit([k \in Clients \X Queries |-> e])

\* ----------------------------------------------------------------- actions

\* Lines 81-84: state = get_state(task); allocation = allocate_task(task).
Allocate(t, count, st) ==
    /\ pc \in {"idle", "done", "raised"}
    /\ tasks_started < MaxTasks
    /\ tasks_started' = tasks_started + 1
    /\ task' = t
    /\ episode_count' = count
    /\ q_state' = st
    /\ allocation' = allocate_task(count, t.difficulty)
    /\ task_allocation_history' =
         IncrementBucket(task_allocation_history, allocation')
    /\ q_ballot' = NoBallot
    /\ ucb_ballot' = "none"
    /\ q_queries' = 0
    /\ ucb_queries' = 0
    /\ strategy' = "none"
    /\ source' = "none"
    /\ sources_tried' = << >>
    /\ searches' = << >>
    /\ primary_outcome' = "none"
    /\ fallback_outcome' = "none"
    /\ papers' = << >>
    /\ cost' = 0
    /\ synth_calls' = 0
    /\ quality' = 0
    /\ base_reward' = 0
    /\ total_reward' = 0
    /\ q_updates' = << >>
    /\ ucb_updates' = << >>
    /\ info' = NoInfo
    /\ pc' = "select"

\* Lines 87-100: strategy and source from the agent(s) the allocation names.
Select(qb, us) ==
    /\ pc = "select"
    /\ IF allocation = "ucb_agent"
       THEN /\ strategy' = "specific"
            /\ source' = us
            /\ q_ballot' = NoBallot
            /\ ucb_ballot' = us
            /\ q_queries' = q_queries
            /\ ucb_queries' = ucb_queries + 1
       ELSE IF allocation = "q_agent"
       THEN /\ strategy' = qb.strategy
            /\ source' = qb.source
            /\ q_ballot' = qb
            /\ ucb_ballot' = "none"
            /\ q_queries' = q_queries + 1
            /\ ucb_queries' = ucb_queries
       ELSE /\ strategy' = agent_voting(qb, us).strategy
            /\ source' = agent_voting(qb, us).source
            /\ q_ballot' = qb
            /\ ucb_ballot' = us
            /\ q_queries' = q_queries + 1
            /\ ucb_queries' = ucb_queries + 1
    /\ sources_tried' = << source' >>
    /\ pc' = "primary"
    /\ UNCHANGED << tasks_started, task, episode_count, q_state,
                    task_allocation_history, allocation, searches, primary_outcome,
                    fallback_outcome, papers, cost, synth_calls, quality,
                    base_reward, total_reward, q_updates, ucb_updates, info >>

\* Lines 102-112: the primary search; on a raise or an empty list the handler
\* picks the backup source and records it in sources_tried.
SearchPrimary(o) ==
    /\ pc = "primary"
    /\ searches' = Append(searches, [strategy |-> strategy, source |-> source])
    /\ primary_outcome' = OutcomeKind(o)
    /\ papers' = IF o.kind = "return" THEN o.papers ELSE papers
    /\ cost' = IF o.kind = "return" THEN o.cost ELSE cost
    /\ IF PrimaryFailed(o)
       THEN /\ sources_tried' = Append(sources_tried, BackupSource(source))
            /\ pc' = "fallback"
       ELSE /\ sources_tried' = sources_tried
            /\ pc' = "synthesize"
    /\ UNCHANGED << tasks_started, task, episode_count, q_state,
                    task_allocation_history, allocation, q_ballot, ucb_ballot,
                    q_queries, ucb_queries, strategy, source, fallback_outcome,
                    synth_calls, quality, base_reward, total_reward, q_updates,
                    ucb_updates, info >>

\* Lines 114-119: the fallback search on the backup source.
SearchFallback(o) ==
    /\ pc = "fallback"
    /\ LET backup == sources_tried[Len(sources_tried)]
           r == FallbackResult(o, source, backup)
       IN /\ searches' = Append(searches, [strategy |-> strategy, source |-> backup])
          /\ fallback_outcome' = OutcomeKind(o)
          /\ papers' = r.papers
          /\ cost' = r.cost
          /\ source' = r.source
          /\ pc' = IF r.escaped THEN "raised" ELSE "synthesize"
    /\ UNCHANGED << tasks_started, task, episode_count, q_state,
                    task_allocation_history, allocation, q_ballot, ucb_ballot,
                    q_queries, ucb_queries, strategy, sources_tried,
                    primary_outcome, synth_calls, quality, base_reward,
                    total_reward, q_updates, ucb_updates, info >>

\* Mutant of Synthesize: the synthesizer is not called on an empty paper list.
Synthesize_skip_empty(q) ==
    /\ pc = "synthesize"
    /\ synth_calls' = IF Len(papers) > 0 THEN synth_calls + 1 ELSE synth_calls
    /\ quality' = IF Len(papers) > 0 THEN q ELSE 0
    /\ pc' = "reward"
    /\ UNCHANGED << tasks_started, task, episode_count, q_state,
                    task_allocation_history, allocation, q_ballot, ucb_ballot,
                    q_queries, ucb_queries, strategy, source, sources_tried,
                    searches, primary_outcome, fallback_outcome, papers, cost,
                    base_reward, total_reward, q_updates, ucb_updates, info >>

\* Line 122: synthesis_result = synthesizer.synthesize(papers, task.query_terms).
Synthesize(q) ==
    /\ pc = "synthesize"
    /\ synth_calls' = synth_calls + 1
    /\ quality' = q
    /\ pc' = "reward"
    /\ UNCHANGED << tasks_started, task, episode_count, q_state,
                    task_allocation_history, allocation, q_ballot, ucb_ballot,
                    q_queries, ucb_queries, strategy, source, sources_tried,
                    searches, primary_outcome, fallback_outcome, papers, cost,
                    base_reward, total_reward, q_updates, ucb_updates, info >>

\* Lines 125-130: the reward; env.get_reward is asked only when papers is non-empty.
Reward(br) ==
    /\ pc = "reward"
    /\ base_reward' = IF Len(papers) > 0 THEN br ELSE 0
    /\ total_reward' = TotalReward(papers, base_reward', quality)
    /\ pc' = "update"
    /\ UNCHANGED << tasks_started, task, episode_count, q_state,
                    task_allocation_history, allocation, q_ballot, ucb_ballot,
                    q_queries, ucb_queries, strategy, source, sources_tried,
                    searches, primary_outcome, fallback_outcome, papers, cost,
                    synth_calls, quality, q_updates, ucb_updates, info >>

\* Lines 133-137: the agent updates the allocation calls for.
Update ==
    /\ pc = "update"
    /\ q_updates' =
         IF UpdatesQ(allocation)
         THEN Append(q_updates, [state |-> q_state,
                                 action |-> << strategy, source >>,
                                 reward |-> total_reward,
                                 next_state |-> NextState(q_state)])
         ELSE q_updates
    /\ ucb_updates' =
         IF UpdatesUcb(allocation)
         THEN Append(ucb_updates, [topic |-> task.topic, source |-> source,
                                   reward |-> total_reward])
         ELSE ucb_updates
    /\ pc' = "return"
    /\ UNCHANGED << tasks_started, task, episode_count, q_state,
                    task_allocation_history, allocation, q_ballot, ucb_ballot,
                    q_queries, ucb_queries, strategy, source, sources_tried,
                    searches, primary_outcome, fallback_outcome, papers, cost,
                    synth_calls, quality, base_reward, total_reward, info >>

\* Lines 139-151: return papers, total_reward, info.
Return ==
    /\ pc = "return"
    /\ info' = BuildInfo(strategy, source, cost, papers, quality, allocation,
                         sources_tried)
    /\ pc' = "done"
    /\ UNCHANGED << tasks_started, task, episode_count, q_state,
                    task_allocation_history, allocation, q_ballot, ucb_ballot,
                    q_queries, ucb_queries, strategy, source, sources_tried,
                    searches, primary_outcome, fallback_outcome, papers, cost,
                    synth_calls, quality, base_reward, total_reward, q_updates,
                    ucb_updates >>

Next ==
    \/ \E t \in [difficulty : Difficulties, topic : Topics],
          count \in EpisodeCounts, st \in States :
          Allocate(t, count, st) /\ UNCHANGED << toolVars, absVars >>
    \/ \E qb \in [strategy : Strategies, source : Sources], us \in Sources :
          Select(qb, us) /\ UNCHANGED << toolVars, absVars >>
    \/ \E o \in SearchOutcomes : SearchPrimary(o) /\ UNCHANGED << toolVars, absVars >>
    \/ \E o \in SearchOutcomes : SearchFallback(o) /\ UNCHANGED << toolVars, absVars >>
    \/ \E q \in Qualities : Synthesize(q) /\ UNCHANGED << toolVars, absVars >>
    \/ \E br \in BaseRewards : Reward(br) /\ UNCHANGED << toolVars, absVars >>
    \/ Update /\ UNCHANGED << toolVars, absVars >>
    \/ Return /\ UNCHANGED << toolVars, absVars >>

Spec == Init /\ [][Next]_vars

\* research_with_fallback is one thread of straight-line code whose
\* collaborators are called synchronously: a run that has a next statement
\* executes it.
SpecFair == Spec /\ WF_vars(Next)

\* ------------------------------------------------------- tool-layer actions

\* ResearchToolkit.search, lines 218-227, and the client's cache lookup (lines
\* 72-75, 163-166): count the call, then return the cached list on a hit, go to
\* the provider on a miss, or take [] for an unknown source.
ToolkitCall(src, q) ==
    /\ t_pc = "idle"
    /\ calls_started < MaxCalls
    /\ calls_started' = calls_started + 1
    /\ t_source' = src
    /\ t_query' = q
    /\ call_count' = [call_count EXCEPT ![src] = @ + 1]
    /\ attempt' = 0
    /\ requests' = 0
    /\ sleeps' = << >>
    /\ responses' = << >>
    /\ t_lookup' = IF src \in Clients THEN cache[get_cache_key(q, src)].state ELSE "none"
    /\ t_write' = "none"
    /\ t_fetched' = << >>
    /\ IF src \in Clients
       THEN LET cached == get_cached(cache[get_cache_key(q, src)])
            IN IF cached.raised
               THEN \* lines 234-237: the toolkit catches what the client raises
                    /\ t_papers' = << >>
                    /\ t_stored' = FALSE
                    /\ t_outcome' = "raised"
                    /\ t_pc' = "wrap"
               ELSE IF CacheHit(cached)
               THEN /\ t_papers' = cached.data
                    /\ t_stored' = TRUE
                    /\ t_outcome' = "hit"
                    /\ t_pc' = "wrap"
               ELSE /\ t_papers' = << >>
                    /\ t_stored' = FALSE
                    /\ t_outcome' = "none"
                    /\ t_pc' = IF src = "openalex" THEN "oa_request" ELSE "ax_request"
       ELSE /\ t_papers' = << >>
            /\ t_stored' = FALSE
            /\ t_outcome' = "unknown"
            /\ t_pc' = "wrap"
    /\ calls_made' = [calls_made EXCEPT ![src] = @ + 1]
    /\ UNCHANGED << cache, failure_count, last_call, empties_returned >>

\* OpenAlexAPI.search_papers, lines 85-149: one pass of the retry loop.
OpenAlexRequest(resp, w) ==
    /\ t_pc = "oa_request"
    /\ LET step == OpenAlexStep(resp, attempt)
           key == get_cache_key(t_query, "openalex")
       IN /\ requests' = requests + 1
          /\ responses' = Append(responses, ResponseClass(resp))
          /\ sleeps' = IF step.sleep > 0 THEN Append(sleeps, step.sleep) ELSE sleeps
          /\ IF step.next = "return"
             THEN /\ t_papers' = step.papers
                  /\ cache' = IF step.save
                              THEN [cache EXCEPT ![key] = save_cache(@, step.papers, w)]
                              ELSE cache
                  /\ t_stored' = (step.save /\ w = "written")
                  /\ t_write' = IF step.save THEN w ELSE "none"
                  /\ t_fetched' = step.papers
                  /\ t_outcome' = IF step.save THEN ListKind(step.papers) ELSE "failure"
                  /\ attempt' = attempt
                  /\ t_pc' = "wrap"
             ELSE /\ attempt' = attempt + 1
                  /\ cache' = cache
                  /\ t_papers' = << >>
                  /\ t_stored' = FALSE
                  /\ t_write' = "none"
                  /\ t_fetched' = << >>
                  /\ IF LoopContinues(attempt + 1)
                     THEN t_pc' = "oa_request" /\ t_outcome' = t_outcome
                     ELSE t_pc' = "wrap" /\ t_outcome' = "failure"
    /\ UNCHANGED << calls_started, t_source, t_query, call_count, failure_count,
                    last_call, t_lookup, calls_made, empties_returned >>

\* ArxivAPI.search_papers, lines 168-191: the results collected so far are
\* returned; they are saved only when the iteration ends without raising.
ArxivRequest(res, w) ==
    /\ t_pc = "ax_request"
    /\ LET key == get_cache_key(t_query, "arxiv")
       IN /\ requests' = requests + 1
          /\ responses' = Append(responses, IF res.kind = "ok" THEN "ok" ELSE "error")
          /\ t_papers' = res.papers
          /\ cache' = IF res.kind = "ok"
                      THEN [cache EXCEPT ![key] = save_cache(@, res.papers, w)]
                      ELSE cache
          /\ t_stored' = (res.kind = "ok" /\ w = "written")
          /\ t_write' = IF res.kind = "ok" THEN w ELSE "none"
          /\ t_fetched' = res.papers
          /\ t_outcome' = IF res.kind = "ok" THEN ListKind(res.papers) ELSE "failure"
          /\ t_pc' = "wrap"
    /\ UNCHANGED << calls_started, t_source, t_query, call_count, failure_count,
                    attempt, sleeps, last_call, t_lookup, calls_made,
                    empties_returned >>

\* ResearchToolkit.search, lines 229-232: count an empty list as a failure, return.
ToolkitReturn ==
    /\ t_pc = "wrap"
    /\ failure_count' = IF CountsAsFailure(t_papers)
                        THEN [failure_count EXCEPT ![t_source] = @ + 1]
                        ELSE failure_count
    /\ last_call' = [source |-> t_source, query |-> t_query, result |-> t_papers,
                     requests |-> requests, stored |-> t_stored,
                     outcome |-> t_outcome]
    /\ empties_returned' = IF Len(t_papers) = 0
                           THEN [empties_returned EXCEPT ![t_source] = @ + 1]
                           ELSE empties_returned
    /\ t_pc' = "idle"
    /\ UNCHANGED << calls_started, t_source, t_query, cache, call_count, attempt,
                    requests, sleeps, responses, t_papers, t_stored, t_outcome,
                    t_lookup, t_write, t_fetched, calls_made >>

NextTools ==
    \/ \E src \in Sources, q \in Queries : ToolkitCall(src, q) /\ UNCHANGED << coordVars, absVars >>
    \/ \E resp \in Responses, w \in WriteOutcomes :
          OpenAlexRequest(resp, w) /\ UNCHANGED << coordVars, absVars >>
    \/ \E res \in ArxivResults, w \in WriteOutcomes :
          ArxivRequest(res, w) /\ UNCHANGED << coordVars, absVars >>
    \/ ToolkitReturn /\ UNCHANGED << coordVars, absVars >>

SpecTools == InitTools /\ [][NextTools]_vars

\* ------------------------------------------- abstract reconstruction actions

\* Line 98-100: a work arrives with a non-empty abstract_inverted_index.
LoadWork(text) ==
    /\ a_pc \in {"idle", "done"}
    /\ a_text' = text
    /\ inv_index' = InvertedIndex(text)
    /\ words' = << >>
    /\ abstract' = ""
    /\ a_pc' = "loaded"

\* Lines 101-105: fill the position-indexed list and join it.
Reconstruct ==
    /\ a_pc = "loaded"
    /\ words' = ReconstructWords(inv_index)
    /\ abstract' = JoinWords(words')
    /\ a_pc' = "done"
    /\ UNCHANGED << a_text, inv_index >>

NextAbstract ==
    \/ \E text \in Texts : LoadWork(text) /\ UNCHANGED << coordVars, toolVars >>
    \/ Reconstruct /\ UNCHANGED << coordVars, toolVars >>

SpecAbstract == Init /\ [][NextAbstract]_vars

\* ------------------------------------------------------------------ claims

\* The run has passed the primary search and whatever fallback it needed.
SearchesOver == pc \in {"synthesize", "reward", "update", "return", "done"}

\* C1: allocate_task is a decision table on (episode_count, difficulty): below
\* 50 episodes it returns 'both' whatever the difficulty; from 50 on it returns
\* 'ucb_agent' for easy, 'q_agent' for hard and 'both' for medium.
C1_AllocationTable ==
    pc # "idle" =>
        /\ episode_count < 50 => allocation = "both"
        /\ episode_count >= 50 =>
              /\ task.difficulty = "easy" => allocation = "ucb_agent"
              /\ task.difficulty = "hard" => allocation = "q_agent"
              /\ task.difficulty = "medium" => allocation = "both"

C1_Witness ==
    /\ pc = "select"
    /\ episode_count = 50
    /\ task.difficulty = "easy"
    /\ allocation = "ucb_agent"

\* C2: agent_voting asks each agent exactly once; equal ballots elect that
\* source, different ballots elect the q_agent's source, and the strategy is
\* always the q_agent's proposed strategy.
C2_Voting ==
    (pc = "primary" /\ allocation = "both") =>
        /\ q_queries = 1
        /\ ucb_queries = 1
        /\ q_ballot.source = ucb_ballot => source = ucb_ballot
        /\ q_ballot.source # ucb_ballot => source = q_ballot.source
        /\ strategy = q_ballot.strategy

C2_Witness ==
    /\ pc = "primary"
    /\ allocation = "both"
    /\ q_ballot.source = "arxiv"
    /\ ucb_ballot = "openalex"
    /\ source = "arxiv"
    /\ strategy = q_ballot.strategy

\* C3: a primary search that raises or returns an empty list is followed by
\* exactly one fallback search, with the same strategy and the other member of
\* {openalex, arxiv} as source; a primary search that returns papers is followed
\* by none; at most two searches are issued per task.
C3_Fallback ==
    /\ Len(searches) <= 2
    /\ (SearchesOver /\ primary_outcome \in {"raise", "empty"}) =>
          /\ Len(searches) = 2
          /\ searches[2].strategy = searches[1].strategy
          /\ searches[2].source \in {"openalex", "arxiv"}
          /\ searches[2].source # searches[1].source
          /\ searches[1].source = "openalex" => searches[2].source = "arxiv"
          /\ searches[1].source = "arxiv" => searches[2].source = "openalex"
    /\ (SearchesOver /\ primary_outcome = "papers") => Len(searches) = 1

C3_Witness ==
    /\ pc = "done"
    /\ primary_outcome = "empty"
    /\ Len(searches) = 2
    /\ searches[1] = [strategy |-> "broad", source |-> "arxiv"]
    /\ searches[2] = [strategy |-> "broad", source |-> "openalex"]

\* C4: whenever both the primary and the fallback search yield nothing (each
\* raising or returning an empty list), research_with_fallback returns an empty
\* paper list and reports info.cost = 5.0.
C4_ExhaustedCost ==
    (pc = "done" /\ primary_outcome \in {"raise", "empty"}
                 /\ fallback_outcome \in {"raise", "empty"}) =>
        /\ papers = << >>
        /\ info.cost = 50

\* C5: the total reward is base_reward + 2 x quality when the final paper list
\* is non-empty and exactly -10 when it is empty, whatever the cost and quality.
C5_Reward ==
    pc \in {"update", "return", "done"} =>
        /\ Len(papers) > 0 => total_reward = base_reward + 2 * quality
        /\ Len(papers) = 0 => total_reward = -100

C5_Witness ==
    /\ pc = "done"
    /\ Len(papers) > 0
    /\ quality = 8
    /\ base_reward = 45
    /\ total_reward = 61

\* C6: in every run the strategy agent is updated exactly once iff the
\* allocation is q_agent or both, the UCB agent exactly once iff it is ucb_agent
\* or both; both updates carry the returned total_reward, and the strategy
\* agent's next_state is the pre-decision state.
C6_Updates ==
    /\ pc \in {"return", "done"} =>
          /\ Len(q_updates) = (IF allocation \in {"q_agent", "both"} THEN 1 ELSE 0)
          /\ Len(ucb_updates) = (IF allocation \in {"ucb_agent", "both"} THEN 1 ELSE 0)
    /\ \A i \in 1..Len(q_updates) :
          /\ q_updates[i].reward = total_reward
          /\ q_updates[i].state = q_state
          /\ q_updates[i].next_state = q_state
    /\ \A i \in 1..Len(ucb_updates) : ucb_updates[i].reward = total_reward

C6_Witness ==
    /\ pc = "done"
    /\ allocation = "both"
    /\ Len(q_updates) = 1
    /\ Len(ucb_updates) = 1
    /\ q_updates[1].reward = total_reward
    /\ q_updates[1].next_state = "s1"

\* C7: info.sources_tried is the ordered list of the sources a search was issued
\* on (the selected primary source, then the fallback source if one was tried),
\* and info.fallback_used is true iff the primary search raised or returned an
\* empty list.
C7_SourcesTried ==
    pc = "done" =>
        /\ info.sources_tried = [i \in 1..Len(searches) |-> searches[i].source]
        /\ info.fallback_used <=> primary_outcome \in {"raise", "empty"}
        /\ info.fallback_used <=> Len(searches) = 2

C7_Witness ==
    /\ pc = "done"
    /\ task.difficulty = "hard"
    /\ allocation = "q_agent"
    /\ primary_outcome = "empty"
    /\ fallback_outcome = "raise"
    /\ info.fallback_used
    /\ info.sources_tried = << "openalex", "arxiv" >>

\* C8: no error escapes the coordinator: whatever the primary and the fallback
\* search do (raise, return no papers, return papers), the run goes on to
\* return a well-formed (papers, total_reward, info) triple.
C8_NoEscape ==
    /\ pc # "raised"
    /\ pc \in {"select", "primary", "fallback", "synthesize", "reward", "update", "return"}
          => ENABLED Next
    /\ pc = "done" =>
          /\ info.papers_count = Len(papers)
          /\ info.sources_tried = sources_tried
          /\ info.allocation = allocation
          /\ total_reward \in Int

C8_Witness ==
    /\ pc = "done"
    /\ primary_outcome = "raise"
    /\ fallback_outcome = "raise"
    /\ info.papers_count = 0
    /\ total_reward = -100

\* The current toolkit call has its list and names the same (source, query) as
\* the call completed just before it.
RepeatedCall ==
    /\ t_pc = "wrap"
    /\ t_source \in Clients
    /\ last_call.source = t_source
    /\ last_call.query = t_query

\* C9 as stated: two consecutive search calls with the same (source, query)
\* return identical lists and the second issues no provider request, whatever
\* the first call's outcome was.
C9_CacheIdempotence ==
    RepeatedCall => (t_papers = last_call.result /\ requests = 0)

\* C9 as amended: the second call returns the identical list without a provider
\* request when the first call returned a non-empty list that the cache holds;
\* in every other case the second call goes to the provider again.
C9_CacheIdempotenceNonEmpty ==
    RepeatedCall =>
        IF Len(last_call.result) > 0 /\ last_call.stored
        THEN t_papers = last_call.result /\ requests = 0
        ELSE requests >= 1

C9_Witness ==
    /\ RepeatedCall
    /\ last_call.outcome = "papers"
    /\ last_call.requests = 1
    /\ last_call.stored
    /\ t_outcome = "hit"
    /\ requests = 0
    /\ t_papers = last_call.result

\* A provider request that met a transient failure.
Transient(r) == r \in {"timeout", "server_error", "rate_limited"}

\* C10: on a cache miss, a search whose every provider request meets a
\* transient failure (timeout, 5xx, 429, in any mix) issues exactly 3 requests
\* and returns an empty list; no search call issues more than 3 requests.
C10_TransientRetries ==
    /\ requests <= 3
    /\ (t_pc = "wrap" /\ t_source = "openalex" /\ t_outcome # "hit"
          /\ \A i \in 1..Len(responses) : Transient(responses[i])) =>
          /\ requests = 3
          /\ Len(responses) = 3
          /\ t_papers = << >>

C10_Witness ==
    /\ t_pc = "wrap"
    /\ t_source = "openalex"
    /\ responses = << "timeout", "rate_limited", "server_error" >>
    /\ requests = 3
    /\ t_papers = << >>

\* The OpenAlex client has finished a search that went to the provider.
OpenAlexSearched ==
    t_pc = "wrap" /\ t_source = "openalex" /\ Len(responses) >= 1

\* C11 as stated: a permanent provider failure (a 4xx other than 429, or a
\* malformed payload) ends the search at once with an empty list: exactly one
\* provider request, no retry, no backoff sleep.
C11_PermanentNoRetry ==
    (OpenAlexSearched /\ responses[1] \in {"client_error", "malformed"}) =>
        /\ requests = 1
        /\ sleeps = << >>
        /\ t_papers = << >>

\* C11 as amended: a 4xx other than 429 ends the search at once with an empty
\* list, one request and no sleep; a malformed payload is retried like a
\* timeout: while attempts remain the client sleeps 2 x attempt and asks again.
C11_Only4xxPermanent ==
    /\ (OpenAlexSearched /\ responses[1] = "client_error") =>
          /\ requests = 1
          /\ sleeps = << >>
          /\ t_papers = << >>
    /\ OpenAlexSearched =>
          \A i \in 1..Len(responses) :
             /\ responses[i] = "client_error" => i = Len(responses)
             /\ (responses[i] = "malformed" /\ i < 3) => Len(responses) > i
    /\ (OpenAlexSearched /\ \A i \in 1..Len(responses) : responses[i] = "malformed") =>
          /\ requests = 3
          /\ sleeps = << 2, 4 >>
          /\ t_papers = << >>

C11_Witness ==
    /\ OpenAlexSearched
    /\ responses = << "client_error" >>
    /\ requests = 1
    /\ sleeps = << >>
    /\ t_papers = << >>

\* C12: every source client (OpenAlex and arXiv alike) follows the resilient
\* pattern: its search never raises, and whenever the provider request fails,
\* part-way through receiving results included, the returned list is empty.
C12_ResilientPattern ==
    /\ t_outcome # "raised"
    /\ (t_pc = "wrap" /\ t_source \in Clients /\ t_outcome = "failure") =>
          t_papers = << >>

\* C13: after any sequence of ResearchToolkit.search calls, for every source id
\* (known or unknown) call_count is the number of calls naming it and
\* failure_count the number of those that returned an empty list; hence
\* 0 <= failure_count <= call_count and success_rate stays within [0,1].
C13_Counters ==
    \A s \in Sources :
        /\ call_count[s] = calls_made[s]
        /\ t_pc = "idle" =>
              /\ failure_count[s] = empties_returned[s]
              /\ 0 <= failure_count[s]
              /\ failure_count[s] <= call_count[s]
              /\ 0 <= success_rate(call_count[s], failure_count[s]).num
              /\ success_rate(call_count[s], failure_count[s]).num
                    <= success_rate(call_count[s], failure_count[s]).den

C13_Witness ==
    /\ t_pc = "idle"
    /\ call_count["pubmed"] = 1
    /\ failure_count["pubmed"] = 1
    /\ call_count["arxiv"] = 1
    /\ failure_count["arxiv"] = 0

Buckets == {"q_agent", "ucb_agent", "both"}

\* C14: each allocate_task call (so each research_with_fallback run) increments
\* exactly one bucket of task_allocation_history by exactly 1, the one named by
\* the returned allocation, and leaves the other two unchanged; the buckets
\* never decrease and their sum is the number of tasks allocated.
C14_AllocationHistory ==
    /\ [](task_allocation_history["q_agent"] + task_allocation_history["ucb_agent"]
             + task_allocation_history["both"] = tasks_started)
    /\ [][ /\ \A b \in Buckets :
                task_allocation_history'[b] >= task_allocation_history[b]
           /\ IF tasks_started' # tasks_started
              THEN /\ tasks_started' = tasks_started + 1
                   /\ allocation' \in Buckets
                   /\ task_allocation_history'[allocation'] =
                         task_allocation_history[allocation'] + 1
                   /\ \A b \in Buckets \ {allocation'} :
                         task_allocation_history'[b] = task_allocation_history[b]
              ELSE task_allocation_history' = task_allocation_history ]_vars

C14_Witness ==
    /\ tasks_started = 2
    /\ pc = "select"
    /\ allocation = "q_agent"
    /\ task_allocation_history = [q_agent |-> 1, ucb_agent |-> 1, both |-> 0]

\* C15: a corrupt or unreadable cache file is a cache miss, never an error: the
\* lookup yields no entry without raising and the search goes to the provider
\* as if no entry existed; a failed cache write is silent too and does not
\* change the returned list.
C15_CorruptCacheIsMiss ==
    /\ t_outcome # "raised"
    /\ (t_source \in Clients /\ t_lookup \in {"corrupt", "absent"}) =>
          /\ t_outcome # "hit"
          /\ t_pc \in {"oa_request", "ax_request"} => requests < 3
          /\ t_pc \in {"wrap", "idle"} => requests >= 1
    /\ t_write \in {"untouched", "truncated"} =>
          /\ t_pc \in {"wrap", "idle"}
          /\ t_outcome \in {"papers", "empty"}
          /\ t_papers = t_fetched

C15_Witness ==
    /\ t_pc = "wrap"
    /\ t_source = "openalex"
    /\ t_lookup = "corrupt"
    /\ t_write = "truncated"
    /\ requests = 1
    /\ t_papers = << 1 >>

\* Every position the index lists, under any word.
ListedPositions ==
    UNION { { inv_index[k].positions[j] : j \in 1..Len(inv_index[k].positions) } :
              k \in 1..Len(inv_index) }

\* The words of a text written out with one space between neighbours.
RECURSIVE SpacedText(_)
SpacedText(text) ==
    IF Len(text) = 1 THEN text[1]
    ELSE SpacedText(SubSeq(text, 1, Len(text) - 1)) \o " " \o text[Len(text)]

RECURSIVE TotalLength(_)
TotalLength(ws) ==
    IF ws = << >> THEN 0 ELSE Len(Head(ws)) + TotalLength(Tail(ws))

\* C16: reconstruction from a word->positions inverted index gives a sequence of
\* length (maximum position + 1) in which each listed position holds its word,
\* joined with single spaces; {"a":[0,2], "b":[1]} gives "a b a", and an index
\* whose positions cover 0..max exactly once gives back the original words.
C16_AbstractReconstruction ==
    a_pc = "done" =>
        /\ Len(words) = MaxOf(ListedPositions) + 1
        /\ \A k \in 1..Len(inv_index) : \A j \in 1..Len(inv_index[k].positions) :
              words[inv_index[k].positions[j] + 1] = inv_index[k].word
        /\ Len(abstract) = TotalLength(words) + Len(words) - 1
        /\ inv_index = << [word |-> "a", positions |-> << 0, 2 >>],
                          [word |-> "b", positions |-> << 1 >>] >>
              => abstract = "a b a"
        /\ ListedPositions = 0..MaxOf(ListedPositions) =>
              /\ words = a_text
              /\ abstract = SpacedText(a_text)

C16_Witness ==
    /\ a_pc = "done"
    /\ inv_index = << [word |-> "a", positions |-> << 0, 2 >>],
                      [word |-> "b", positions |-> << 1 >>] >>
    /\ words = << "a", "b", "a" >>
    /\ abstract = "a b a"

\* The delays a run of attempts calls for, attempt i being the first of rs:
\* 5 after a rate-limit answer, 2 x i after an answer of a class in backed
\* while attempts remain, none otherwise.
RECURSIVE SleepSchedule(_, _, _)
SleepSchedule(rs, i, backed) ==
    IF rs = << >> THEN << >>
    ELSE LET rest == SleepSchedule(Tail(rs), i + 1, backed)
         IN IF Head(rs) = "rate_limited" THEN << 5 >> \o rest
            ELSE IF Head(rs) \in backed /\ i < 3 THEN << 2 * i >> \o rest
            ELSE rest

\* C17 as stated: attempt k < 3 ending in a timeout or a 5xx is followed by a
\* sleep of exactly 2 x k seconds, an attempt ending in a 429 by a sleep of
\* exactly 5 seconds, and the retry loop inserts no other delay.
C17_BackoffSchedule ==
    OpenAlexSearched =>
        sleeps = SleepSchedule(responses, 1, {"timeout", "server_error"})

\* C17 as amended: the 2 x k backoff also follows an attempt k < 3 that ends in
\* any other exception (a connection error, a malformed payload); a 429 is
\* followed by 5 seconds after every attempt, the third included, after which
\* no retry follows; a 200 or another 4xx is followed by no delay.
C17_BackoffScheduleAllErrors ==
    /\ OpenAlexSearched =>
          sleeps = SleepSchedule(responses, 1,
                                 {"timeout", "server_error", "error", "malformed"})
    /\ (OpenAlexSearched /\ Len(responses) = 3 /\ responses[3] = "rate_limited") =>
          /\ Len(sleeps) >= 1
          /\ sleeps[Len(sleeps)] = 5
          /\ t_papers = << >>

C17_Witness ==
    /\ OpenAlexSearched
    /\ responses = << "timeout", "error", "rate_limited" >>
    /\ sleeps = << 2, 4, 5 >>

\* The place of a program point in the pipeline.
StageRank(p) ==
    CASE p = "idle" -> 0
      [] p = "select" -> 1
      [] p = "primary" -> 2
      [] p = "fallback" -> 3
      [] p = "synthesize" -> 4
      [] p = "reward" -> 5
      [] p = "update" -> 6
      [] p = "return" -> 7
      [] p = "done" -> 8
      [] OTHER -> 9

\* What each stage has done by the time a run stands at a program point.
StagesInOrder ==
    /\ pc \in {"select", "primary"} => Len(searches) = 0
    /\ pc = "fallback" =>
          /\ Len(searches) = 1
          /\ primary_outcome \in {"raise", "empty"}
    /\ pc \in {"select", "primary", "fallback", "synthesize"} => synth_calls = 0
    /\ pc \in {"reward", "update", "return", "done"} =>
          /\ synth_calls = 1
          /\ Len(searches) = (IF primary_outcome = "papers" THEN 1 ELSE 2)
    /\ pc \in {"select", "primary", "fallback", "synthesize", "reward", "update"} =>
          /\ q_updates = << >>
          /\ ucb_updates = << >>
    /\ pc \in {"return", "done"} =>
          Len(q_updates) + Len(ucb_updates) \in {1, 2}

\* A step inside a run moves to the next stage; the only stages ever skipped
\* are the fallback search, after a primary search that returned papers.
StageStep ==
    pc' # pc =>
       \/ pc \in {"idle", "done"} /\ pc' = "select"
       \/ /\ pc \notin {"idle", "done"}
          /\ \/ StageRank(pc') = StageRank(pc) + 1
             \/ pc = "primary" /\ pc' = "synthesize" /\ primary_outcome' = "papers"
          /\ pc = "primary" /\ pc' = "fallback" => primary_outcome' \in {"raise", "empty"}
          /\ pc = "fallback" => pc' = "synthesize" /\ Len(searches') = 2

\* C18: every research_with_fallback run is a strictly sequential pipeline that
\* runs to completion: allocation, agent choice, primary search, one fallback
\* search only after a failed or empty primary, exactly one synthesizer call
\* (on an empty paper list too), reward, agent updates; no update precedes the
\* last search and the synthesis, and every started run returns.
C18_SequentialPipeline ==
    /\ []StagesInOrder
    /\ [][StageStep]_vars
    /\ (pc # "idle") ~> (pc = "done")

C18_Witness ==
    /\ pc = "done"
    /\ primary_outcome = "empty"
    /\ fallback_outcome = "raise"
    /\ papers = << >>
    /\ Len(searches) = 2
    /\ synth_calls = 1
    /\ Len(q_updates) + Len(ucb_updates) = 2

\* C19: for every primary source id, ids outside {openalex, arxiv} included, the
\* fallback source is defined and differs from the primary: arxiv when the
\* primary is openalex, openalex for every other primary; sources_tried never
\* holds the same source twice and never has more than two elements.
C19_FallbackSourceTotal ==
    /\ Len(sources_tried) <= 2
    /\ pc \in {"primary"} => Len(sources_tried) = 1
    /\ (pc = "fallback" \/ (SearchesOver /\ primary_outcome \in {"raise", "empty"})) =>
          Len(sources_tried) = 2
    /\ Len(sources_tried) = 2 =>
          /\ sources_tried[1] \in {"openalex", "arxiv", "pubmed"}
          /\ sources_tried[1] = "openalex" => sources_tried[2] = "arxiv"
          /\ sources_tried[1] # "openalex" => sources_tried[2] = "openalex"
          /\ sources_tried[2] # sources_tried[1]

C19_Witness ==
    /\ pc = "done"
    /\ sources_tried = << "pubmed", "openalex" >>
    /\ info.sources_tried = << "pubmed", "openalex" >>

\* C20: info.source is the source passed to every agent update of the run and
\* is a member of sources_tried: the primary source when no fallback was tried
\* or the fallback search raised, the fallback source whenever the fallback
\* search returned (papers or an empty list); when the returned paper list is
\* non-empty the credited source is the one whose search produced the papers.
C20_CreditedSource ==
    pc = "done" =>
        /\ \E i \in 1..Len(sources_tried) : info.source = sources_tried[i]
        /\ \A i \in 1..Len(q_updates) : q_updates[i].action[2] = info.source
        /\ \A i \in 1..Len(ucb_updates) : ucb_updates[i].source = info.source
        /\ fallback_outcome \in {"none", "raise"} => info.source = sources_tried[1]
        /\ fallback_outcome \in {"papers", "empty"} =>
              /\ Len(sources_tried) = 2
              /\ info.source = sources_tried[2]
        /\ Len(papers) > 0 =>
              /\ info.source = searches[Len(searches)].source
              /\ (IF fallback_outcome = "none" THEN primary_outcome
                                               ELSE fallback_outcome) = "papers"

C20_Witness ==
    /\ pc = "done"
    /\ allocation = "both"
    /\ sources_tried = << "openalex", "arxiv" >>
    /\ fallback_outcome = "papers"
    /\ Len(papers) > 0
    /\ info.source = "arxiv"
    /\ Len(q_updates) = 1 /\ q_updates[1].action[2] = "arxiv"
    /\ Len(ucb_updates) = 1 /\ ucb_updates[1].source = "arxiv"

====
